---------------------------- MODULE Spec2Model ----------------------------
(***************************************************************************)
(* A model of the agent-based disaster response simulation:                *)
(*   Agents.py        Agent / Civilian (pathfinding, movement, health)     *)
(*   World.py         Cell, World (grid, road graph, spawn, tick loop)     *)
(*   WorldHandlers.py injure_near_disaster                                 *)
(* Coordinates are <<y, x>>, 0-based as in the source.  An exception       *)
(* raised by the Python code is recorded in the variable err; nothing      *)
(* runs after it (the exception leaves the tick loop and the process).     *)
(***************************************************************************)
EXTENDS Integers, Sequences, FiniteSets, TLC

VARIABLES
    map,            \* World.map: the grid, a tuple of rows of is_road flags
    road_graph,     \* World.road_graph: road cell -> tuple of road neighbours
    agents,         \* World.agents: tuple of civilian records
    occupant,       \* Cell.occupant for every cell: agent index, 0 for None
    disaster,       \* the cells whose disaster flag is set
    disaster_loc,   \* Agent.disaster_loc, <<>> for None
    safe_cells,     \* Civilian.safe_cells, the shared lazily filled list
    err,            \* "" or the name of the exception that was raised
    ticks,          \* number of World.update calls made
    ret,            \* record of the last direct call (operation, inputs, result)
    worsen_calls,   \* worsen_health calls since the civilian became INJURED
                    \* with an unset timer and no injury since; -1 otherwise
    subscribers     \* WorldEvents.subscribers: event name -> list of handlers

vars == <<map, road_graph, agents, occupant, disaster, disaster_loc,
          safe_cells, err, ticks, ret, worsen_calls, subscribers>>

-----------------------------------------------------------------------------
(* Bounds of the model *)

MaxWorsenCalls == 90

MaxTicks == 4

\* the random cells agent_spawn draws at most
MaxDraws == 3

-----------------------------------------------------------------------------
(* Civilian.HealthState, Civilian.Pattern *)

HealthState == {"HEALTHY", "SICK", "INJURED", "GRAVELY_INJURED", "DECEASED"}

\* the value of each member of the HealthState enum
HealthValue(h) ==
    CASE h = "HEALTHY" -> 1
      [] h = "SICK" -> 2
      [] h = "INJURED" -> 3
      [] h = "GRAVELY_INJURED" -> 4
      [] h = "DECEASED" -> 5

Pattern == {"WANDER", "FLEE", "SAFE"}

\* math.inf, the unset value of time_to_worsen
Inf == -1

time_to_grave_injury == 60

time_to_death == 20

-----------------------------------------------------------------------------
(* Civilian.set_injury: the health state after an injury of grade         *)
(* injury_level is applied to a civilian in state health_state.           *)

set_injury_sick_to_injured(health_state, injury_level) ==
    IF injury_level = "DECEASED" \/ health_state = "GRAVELY_INJURED"
    THEN "DECEASED"
    ELSE IF injury_level = "INJURED" /\ health_state \in {"HEALTHY", "SICK"}
    THEN "INJURED"
    ELSE "GRAVELY_INJURED"

set_injury(health_state, injury_level) ==
    IF injury_level = "DECEASED" \/ health_state = "GRAVELY_INJURED"
    THEN "DECEASED"
    ELSE IF injury_level = "INJURED" /\ health_state = "HEALTHY"
    THEN "INJURED"
    ELSE "GRAVELY_INJURED"

(* Civilian.worsen_health applied to the civilian record c. *)
worsen_health(c) ==
    IF c.health_state \in {"HEALTHY", "SICK", "DECEASED"}
    THEN c
    ELSE IF c.health_state = "INJURED"
    THEN IF c.time_to_worsen = Inf
         THEN [c EXCEPT !.time_to_worsen = time_to_grave_injury]
         ELSE IF c.time_to_worsen = 0
         THEN [c EXCEPT !.health_state = set_injury(c.health_state, "GRAVELY_INJURED"),
                        !.time_to_worsen = time_to_death]
         ELSE [c EXCEPT !.time_to_worsen = c.time_to_worsen - 1]
    ELSE \* GRAVELY_INJURED
         IF c.time_to_worsen = Inf
         THEN [c EXCEPT !.time_to_worsen = time_to_death]
         ELSE IF c.time_to_worsen = 0
         THEN [c EXCEPT !.health_state = set_injury(c.health_state, "DECEASED")]
         ELSE [c EXCEPT !.time_to_worsen = c.time_to_worsen - 1]

-----------------------------------------------------------------------------
(* Grid helpers.  A map is a tuple of rows, each a tuple of is_road flags  *)
(* (Cell.is_road); cell <<y, x>> is map[y + 1][x + 1].                     *)

Height(m) == Len(m)

Width(m) == Len(m[1])

Cells(m) == (0 .. Height(m) - 1) \X (0 .. Width(m) - 1)

is_road(m, c) == m[c[1] + 1][c[2] + 1]

RoadCells(m) == {c \in Cells(m) : is_road(m, c)}

Abs(n) == IF n < 0 THEN -n ELSE n

Max(a, b) == IF a >= b THEN a ELSE b

Min(a, b) == IF a <= b THEN a ELSE b

\* max(abs(a[0] - b[0]), abs(a[1] - b[1]))
Chebyshev(a, b) == Max(Abs(a[1] - b[1]), Abs(a[2] - b[2]))

Reverse(s) == [i \in 1 .. Len(s) |-> s[Len(s) + 1 - i]]

\* the rows (or columns) a Python slice [a:b] selects from an axis of length n:
\* lo .. hi - 1; a negative bound counts from the end of the axis
PySliceBound(a, n) == IF a < 0 THEN Max(a + n, 0) ELSE Min(a, n)

PySlice(a, b, n) ==
    [lo |-> PySliceBound(a, n),
     hi |-> Max(PySliceBound(a, n), PySliceBound(b, n))]

-----------------------------------------------------------------------------
(* World.init_road_graph *)

possible_neighbours ==
    << <<-1, -1>>, <<-1, 0>>, <<-1, 1>>, <<0, 1>>,
       <<1, 0>>, <<1, 1>>, <<1, -1>>, <<0, -1>> >>

RECURSIVE valid_neighbours(_, _, _)
valid_neighbours(m, c, k) ==
    IF k > Len(possible_neighbours) THEN <<>>
    ELSE LET ny == possible_neighbours[k][1] + c[1]
             nx == possible_neighbours[k][2] + c[2]
             here == IF ny < Height(m) /\ nx < Width(m) /\ ny >= 0 /\ nx >= 0
                     THEN IF is_road(m, <<ny, nx>>) THEN << <<ny, nx>> >> ELSE <<>>
                     ELSE <<>>
         IN  here \o valid_neighbours(m, c, k + 1)

init_road_graph(m) == [c \in RoadCells(m) |-> valid_neighbours(m, c, 1)]

-----------------------------------------------------------------------------
(* Agent.find_path: A* over the road graph.  The heap holds <<f, node>>    *)
(* pairs; heappop takes the least pair in Python's tuple order.  find_path *)
(* never pushes the same pair twice, so the heap is a set.                 *)

TupleLess(a, b) ==
    \/ a[1] < b[1]
    \/ a[1] = b[1] /\ a[2][1] < b[2][1]
    \/ a[1] = b[1] /\ a[2][1] = b[2][1] /\ a[2][2] < b[2][2]

heappop(heap) == CHOOSE e \in heap : \A o \in heap \ {e} : TupleLess(e, o)

\* finish_path as the spec describes it: the start cell is left out
RECURSIVE finish_path_without_start(_, _, _)
finish_path_without_start(completed_path, val, came_from) ==
    IF val \in DOMAIN came_from
    THEN finish_path_without_start(Append(completed_path, val), came_from[val], came_from)
    ELSE Reverse(completed_path)

RECURSIVE finish_path(_, _, _)
finish_path(completed_path, val, came_from) ==
    LET appended == Append(completed_path, val)
    IN  IF val \in DOMAIN came_from
        THEN finish_path(appended, came_from[val], came_from)
        ELSE Reverse(appended)

\* a weighted heuristic: no longer admissible
heuristic_weighted(neighbor, target) == 3 * Chebyshev(neighbor, target)

\* line 85: the heuristic of a neighbour
heuristic(neighbor, target) == Chebyshev(neighbor, target)

\* lines 84-92: the loop over the neighbours of current
RECURSIVE relax_neighbours(_, _, _, _, _)
relax_neighbours(rg, st, current, target, k) ==
    IF k > Len(rg[current]) THEN st
    ELSE LET neighbor == rg[current][k]
             tentative_g == st.g_score[current] + 1
             better == \/ neighbor \notin DOMAIN st.g_score
                       \/ tentative_g < st.g_score[neighbor]
             f == tentative_g + heuristic(neighbor, target)
             st2 == IF better
                    THEN [g_score |-> (neighbor :> tentative_g) @@ st.g_score,
                          to_be_visited |-> st.to_be_visited \cup {<<f, neighbor>>},
                          came_from |-> (neighbor :> current) @@ st.came_from]
                    ELSE st
         IN  relax_neighbours(rg, st2, current, target, k + 1)

\* what find_path returns when the queue runs empty
exhausted_partial(st, last) == finish_path(<<>>, last, st.came_from)

exhausted(st, last) == <<>>

\* lines 78-93: the while loop; last is the node popped before
RECURSIVE astar(_, _, _, _)
astar(rg, st, target, last) ==
    IF st.to_be_visited = {} THEN exhausted(st, last)
    ELSE LET top == heappop(st.to_be_visited)
             current == top[2]
             popped == [st EXCEPT !.to_be_visited = st.to_be_visited \ {top}]
         IN  IF current = target
             THEN finish_path(<<>>, target, st.came_from)
             ELSE astar(rg, relax_neighbours(rg, popped, current, target, 1),
                        target, current)

find_path(rg, location, target) ==
    astar(rg,
          [g_score |-> (location :> 0),
           to_be_visited |-> {<<0, location>>},
           came_from |-> [n \in {} |-> n]],
          target, location)

-----------------------------------------------------------------------------
(* World.set_perception: the window map[y-3:y+4, x-3:x+4], kept as the     *)
(* rows and columns the two slices select (the window is a view of the     *)
(* map: its cells are read when the agent looks at them).                  *)

set_perception(m, location) ==
    [rows |-> PySlice(location[1] - 3, location[1] + 4, Height(m)),
     cols |-> PySlice(location[2] - 3, location[2] + 4, Width(m))]

\* perception[i][j] raises IndexError outside the window
InWindow(p, i, j) == i < p.rows.hi - p.rows.lo /\ j < p.cols.hi - p.cols.lo

\* the grid cell that perception[i][j] is
WindowCell(p, i, j) == <<p.rows.lo + i, p.cols.lo + j>>

\* perception.flatten(), as the set of grid cells in the window
flatten(p) == (p.rows.lo .. p.rows.hi - 1) \X (p.cols.lo .. p.cols.hi - 1)

(* Civilian.__init__ followed by World.set_perception (agent_spawn):       *)
(* target is the road cell find_target drew at random for WANDER.          *)
Civilian(m, rg, location, target) ==
    [location |-> location,
     target |-> target,
     path |-> find_path(rg, location, target),
     pattern |-> "WANDER",
     health_state |-> "HEALTHY",
     time_to_worsen |-> Inf,
     perception |-> set_perception(m, location)]

\* Cell.occupant of every cell once the agents ags are placed
Occupants(m, ags) ==
    [c \in Cells(m) |->
        IF \E i \in 1 .. Len(ags) : ags[i].location = c
        THEN CHOOSE i \in 1 .. Len(ags) : ags[i].location = c
        ELSE 0]

-----------------------------------------------------------------------------
(* Civilian.find_target for pattern FLEE (lines 277-355).  The result is   *)
(* [safe_cells, target, err]: the shared list after the call, the cell     *)
(* returned, and the exception raised if any.                              *)

MaxOf(S) == IF S = {} THEN 0 ELSE CHOOSE n \in S : \A o \in S : o <= n

\* lines 295-299: the loop over i; x_size is the largest x of a road cell
RECURSIVE edge_rows(_, _, _, _)
edge_rows(road_cells, i, y_size, x_size) ==
    IF i > y_size THEN <<>>
    ELSE (IF <<i, x_size>> \in road_cells THEN << <<i, x_size>> >> ELSE <<>>)
         \o (IF <<i, 0>> \in road_cells THEN << <<i, 0>> >> ELSE <<>>)
         \o edge_rows(road_cells, i + 1, y_size, x_size)

\* lines 301-306: the loop over j
RECURSIVE edge_cols(_, _, _, _)
edge_cols(road_cells, j, y_size, x_size) ==
    IF j > x_size THEN <<>>
    ELSE (IF <<y_size, j>> \in road_cells THEN << <<y_size, j>> >> ELSE <<>>)
         \o (IF <<0, j>> \in road_cells THEN << <<0, j>> >> ELSE <<>>)
         \o edge_cols(road_cells, j + 1, y_size, x_size)

\* lines 279-306: the list an empty safe_cells is filled with
populate_safe_cells(rg) ==
    LET road_cells == DOMAIN rg
        y_size == MaxOf({c[1] : c \in road_cells})
        x_size == MaxOf({c[2] : c \in road_cells})
    IN  edge_rows(road_cells, 0, y_size, x_size)
        \o edge_cols(road_cells, 0, y_size, x_size)

\* lines 323-334: does the filter keep this edge cell
relative_location(edge, location, dloc) ==
    /\ IF dloc[1] <= location[1] THEN edge[1] >= location[1]
                                 ELSE edge[1] <= location[1]
    /\ IF dloc[2] <= location[2] THEN edge[2] >= location[2]
                                 ELSE edge[2] <= location[2]

\* lines 338-355: valid_indices holds cells, and the loop runs over the two
\* coordinates of its first cell, using each as an index into safe_cells
closest_safe_cell(sc, valid_indices, location) ==
    IF valid_indices = <<>>
    THEN [safe_cells |-> sc, target |-> location, err |-> "IndexError"]
    ELSE LET i1 == valid_indices[1][1]
             i2 == valid_indices[1][2]
         IN  IF i1 >= Len(sc) \/ i2 >= Len(sc)
             THEN [safe_cells |-> sc, target |-> location, err |-> "IndexError"]
             ELSE LET h1 == Chebyshev(sc[i1 + 1], location)
                      h2 == Chebyshev(sc[i2 + 1], location)
                  IN  [safe_cells |-> sc,
                       target |-> IF h2 < h1 THEN sc[i2 + 1] ELSE sc[i1 + 1],
                       err |-> ""]

find_target_flee(rg, sc0, location, dloc) ==
    LET sc == IF Len(sc0) = 0 THEN populate_safe_cells(rg) ELSE sc0
        keep(edge) == relative_location(edge, location, dloc)
    IN  IF dloc = <<>>
        THEN [safe_cells |-> sc, target |-> location, err |-> "TypeError"]
        ELSE closest_safe_cell(sc, SelectSeq(sc, keep), location)

-----------------------------------------------------------------------------
(* The world inside a tick is the record w = [agents, occupant,            *)
(* safe_cells, err]; map, road_graph, disaster and disaster_loc do not     *)
(* change during a tick and are read from the state.                       *)

Raise(w, exception) == [w EXCEPT !.err = exception]

(* Agent.follow_path for agent i, with the assignment                      *)
(* self.location = self.follow_path() of Civilian.update.                  *)

\* line 166
neighbours ==
    << <<2, 2>>, <<2, 3>>, <<2, 4>>, <<3, 2>>, <<4, 2>>, <<3, 4>>, <<4, 4>>, <<4, 3>> >>

\* line 175 without the occupancy test
cell_is_free_ignoring_occupant(w, c) == is_road(map, c)

\* line 175: the cell is unoccupied and a road
cell_is_free(w, c) == w.occupant[c] = 0 /\ is_road(map, c)

\* lines 171-177: the loop over neighbours from index k on; best_score Inf is
\* math.inf.  The result is [best_loc, best_score, err].
RECURSIVE best_neighbour(_, _, _, _, _)
best_neighbour(w, p, perceived_desired_loc, k, best) ==
    IF k > Len(neighbours) THEN best
    ELSE LET cell == neighbours[k]
             h == Chebyshev(perceived_desired_loc, cell)
         IN  IF best.best_score = Inf \/ h < best.best_score
             THEN IF ~InWindow(p, cell[1], cell[2])
                  THEN [best EXCEPT !.err = "IndexError"]
                  ELSE IF cell_is_free(w, WindowCell(p, cell[1], cell[2]))
                  THEN best_neighbour(w, p, perceived_desired_loc, k + 1,
                                      [best_loc |-> cell, best_score |-> h, err |-> ""])
                  ELSE best_neighbour(w, p, perceived_desired_loc, k + 1, best)
             ELSE best_neighbour(w, p, perceived_desired_loc, k + 1, best)

\* lines 155-158: is the waypoint 3 or more cells away along an axis
\* line 85 of find_path: self.road_graph[current] raises KeyError when the
\* search starts at a location that is no key of the road graph (the start
\* is the first node popped; line 82 returns before that if it is the target)
off_graph(location, target) ==
    location # target /\ location \notin DOMAIN road_graph

strayed(location, desired_loc) ==
    Abs(desired_loc[1] - location[1]) >= 3 \/ Abs(desired_loc[2] - location[2]) >= 3

follow_path(w, i) ==
    LET c == w.agents[i]
        far == strayed(c.location, Head(c.path))
        replanned == find_path(road_graph, c.location, c.target)
    IN  IF c.path = <<>>
        THEN \* lines 143-144: return self.location
             w
        ELSE IF far /\ off_graph(c.location, c.target)
        THEN Raise([w EXCEPT !.agents[i].path = Tail(c.path)], "KeyError")
        ELSE IF far /\ replanned = <<>>
        THEN \* self.path.pop(0) on an empty list
             Raise([w EXCEPT !.agents[i].path = <<>>], "IndexError")
        ELSE LET desired_loc == IF far THEN Head(replanned) ELSE Head(c.path)
                 rest == IF far THEN Tail(replanned) ELSE Tail(c.path)
                 translation_difference == <<c.location[1] - 3, c.location[2] - 3>>
                 perceived_desired_loc ==
                     <<desired_loc[1] - translation_difference[1],
                       desired_loc[2] - translation_difference[2]>>
                 best == best_neighbour(w, c.perception, perceived_desired_loc, 1,
                             [best_loc |-> <<3, 3>>, best_score |-> Inf, err |-> ""])
                 popped == [w EXCEPT !.agents[i].path = rest]
             IN  IF best.err # ""
                 THEN Raise(popped, best.err)
                 ELSE [popped EXCEPT !.agents[i].location =
                          <<best.best_loc[1] + translation_difference[1],
                            best.best_loc[2] + translation_difference[2]>>]

(* Civilian.check_perception_wander for agent i (pattern WANDER).  The     *)
(* loop breaks at the first cell where a disaster flag is seen or the      *)
(* count of fleeing civilians seen so far exceeds 5; what it then does     *)
(* does not depend on the cell, so only whether it breaks is computed.     *)

fleeing_in(w, p) ==
    {c \in flatten(p) : w.occupant[c] # 0
                        /\ w.agents[w.occupant[c]].pattern = "FLEE"}

sees_danger(w, p) ==
    \/ \E c \in flatten(p) : c \in disaster
    \/ Cardinality(fleeing_in(w, p)) > 5

check_perception_wander(w, i) ==
    IF sees_danger(w, w.agents[i].perception)
    THEN LET fleeing == [w EXCEPT !.agents[i].pattern = "FLEE"]
             found == find_target_flee(road_graph, w.safe_cells,
                                       w.agents[i].location, disaster_loc)
             cached == [fleeing EXCEPT !.safe_cells = found.safe_cells]
         IN  IF found.err # ""
             THEN Raise(cached, found.err)
             ELSE IF off_graph(w.agents[i].location, found.target)
             THEN Raise([cached EXCEPT !.agents[i].target = found.target], "KeyError")
             ELSE [cached EXCEPT
                     !.agents[i].target = found.target,
                     !.agents[i].path = find_path(road_graph, w.agents[i].location,
                                                  found.target)]
    ELSE w

(* Civilian.check_perception_flee for agent i (pattern FLEE); trampled is  *)
(* the outcome of random.random() <= 0.05, drawn only in a crowd.          *)

\* lines 412-417 without the test that leaves DECEASED occupants out
total_surrounding_counting_deceased(w, i) ==
    Cardinality({c \in flatten(w.agents[i].perception) :
                    /\ w.occupant[c] # 0
                    /\ w.occupant[c] # i})

total_surrounding(w, i) ==
    Cardinality({c \in flatten(w.agents[i].perception) :
                    /\ w.occupant[c] # 0
                    /\ w.occupant[c] # i
                    /\ w.agents[w.occupant[c]].health_state # "DECEASED"})

in_crowd(w, i) == total_surrounding(w, i) >= 20

check_perception_flee(w, i, trampled) ==
    IF in_crowd(w, i) /\ trampled
    THEN [w EXCEPT !.agents[i].health_state =
                       set_injury(w.agents[i].health_state, "INJURED")]
    ELSE w

check_perception(w, i, trampled) ==
    IF w.agents[i].pattern = "WANDER" THEN check_perception_wander(w, i)
    ELSE IF w.agents[i].pattern = "FLEE" THEN check_perception_flee(w, i, trampled)
    ELSE w

(* Civilian.update for agent i.  random_cell is the road cell find_target  *)
(* draws for WANDER (used only when the path is empty).                    *)

\* lines 243-244 with the civilian's own target as the only safe cell
at_target_only(w, i) == w.agents[i].target = w.agents[i].location

at_safe_cell(w, i) ==
    \E k \in 1 .. Len(w.safe_cells) : w.safe_cells[k] = w.agents[i].location

\* lines 249-254, with a fleeing civilian that has no path left going back
\* to wandering
move_or_plan_resuming_wander(w, i, random_cell) ==
    IF w.agents[i].path # <<>>
    THEN follow_path(w, i)
    ELSE [w EXCEPT !.agents[i].pattern = "WANDER",
                   !.agents[i].target = random_cell,
                   !.agents[i].path = find_path(road_graph,
                                                w.agents[i].location, random_cell)]

\* lines 249-254
move_or_plan(w, i, random_cell) ==
    IF w.agents[i].path # <<>>
    THEN follow_path(w, i)
    ELSE LET target == IF w.agents[i].pattern = "WANDER" THEN random_cell
                       ELSE w.agents[i].target
         IN  IF off_graph(w.agents[i].location, target)
             THEN Raise([w EXCEPT !.agents[i].target = target], "KeyError")
             ELSE
             [w EXCEPT !.agents[i].target = target,
                       !.agents[i].path = find_path(road_graph,
                                                    w.agents[i].location, target)]

\* line 236 without the GRAVELY_INJURED test
frozen_unless_gravely_injured(c) ==
    \/ c.pattern = "SAFE"
    \/ c.health_state = "DECEASED"

\* line 236: the civilian does nothing this tick
frozen(c) ==
    \/ c.pattern = "SAFE"
    \/ c.health_state = "DECEASED"
    \/ c.health_state = "GRAVELY_INJURED"

Civilian_update(w, i, random_cell, trampled) ==
    IF frozen(w.agents[i]) THEN w
    ELSE LET perceived == check_perception(w, i, trampled)
         IN  IF perceived.err # "" THEN perceived
             ELSE LET worsened == [perceived EXCEPT
                                     !.agents[i] = worsen_health(perceived.agents[i])]
                  IN  IF worsened.agents[i].pattern = "FLEE" /\ at_safe_cell(worsened, i)
                      THEN [worsened EXCEPT !.agents[i].pattern = "SAFE"]
                      ELSE move_or_plan(worsened, i, random_cell)

\* the road cells find_target draws for WANDER (line 275): a few of the
\* road cells of the map; on CityMap one of them is in the unreachable
\* corner component
RandomRoadCells == {<<3, 6>>, <<6, 3>>, <<0, 0>>}

\* the random draws Civilian.update can make for agent i in world w
RandomCells(w, i) ==
    IF ~frozen(w.agents[i]) /\ w.agents[i].pattern = "WANDER" /\ w.agents[i].path = <<>>
    THEN RandomRoadCells \cap DOMAIN road_graph
    ELSE {w.agents[i].location}

RandomTrample(w, i) ==
    IF ~frozen(w.agents[i]) /\ w.agents[i].pattern = "FLEE" /\ in_crowd(w, i)
    THEN {TRUE, FALSE}
    ELSE {FALSE}

(* World.update: lines 183-191.  commit is lines 186-191 for agent i whose *)
(* update returned world u; old_loc was read before the update.            *)

\* lines 186-191 without the two writes of Cell.occupant
commit_perception_only(u, i, old_loc) ==
    [u EXCEPT !.agents[i].perception = set_perception(map, u.agents[i].location)]

\* self.map[loc[0], loc[1]]: a negative index counts from the end of its
\* axis; an index outside -n .. n - 1 raises IndexError
indexable(m, loc) ==
    /\ -Height(m) <= loc[1] /\ loc[1] < Height(m)
    /\ -Width(m) <= loc[2] /\ loc[2] < Width(m)

indexed(m, loc) == <<loc[1] % Height(m), loc[2] % Width(m)>>

commit(u, i, old_loc) ==
    LET new_loc == u.agents[i].location
        cleared == [u EXCEPT !.occupant[indexed(map, old_loc)] = 0]
    IN  IF ~indexable(map, old_loc) THEN Raise(u, "IndexError")
        ELSE IF ~indexable(map, new_loc) THEN Raise(cleared, "IndexError")
        ELSE [cleared EXCEPT !.occupant[indexed(map, new_loc)] = i,
                             !.agents[i].perception = set_perception(map, new_loc)]

\* the worlds the loop can end in when it continues at agent i
RECURSIVE update_from(_, _)
update_from(w, i) ==
    IF i > Len(w.agents) THEN {w}
    ELSE UNION { LET u == Civilian_update(w, i, random_cell, trampled)
                 IN  IF u.err # "" THEN {u}
                     ELSE LET committed == commit(u, i, w.agents[i].location)
                          IN  IF committed.err # "" THEN {committed}
                              ELSE update_from(committed, i + 1)
                 : random_cell \in RandomCells(w, i),
                   trampled \in RandomTrample(w, i) }

World_update(w) == update_from(w, 1)

-----------------------------------------------------------------------------
(* injure_near_disaster (WorldHandlers.py).  roll[i] is the injury the     *)
(* coin gives civilian i if it is outside the death radius.                *)

death_radius ==
    {<<2, 2>>, <<2, 3>>, <<2, 4>>, <<3, 2>>, <<4, 2>>, <<3, 4>>, <<4, 4>>, <<4, 3>>,
     <<3, 3>>}

\* line 48: the window world.map[y-3:y+4, x-3:x+4]
area_around_disaster(m, location) ==
    [rows |-> PySlice(location[1] - 3, location[1] + 4, Height(m)),
     cols |-> PySlice(location[2] - 3, location[2] + 4, Width(m))]

\* lines 55-79: the two loops from the k-th window cell on, in row-major
\* order (cell k is row k \div columns, column k % columns)
RECURSIVE injure_cells(_, _, _, _, _, _)
injure_cells(m, occ, ags, area, roll, k) ==
    LET columns == area.cols.hi - area.cols.lo
        rows == area.rows.hi - area.rows.lo
    IN  IF k >= rows * columns THEN ags
        ELSE LET i == k \div columns
                 j == k % columns
                 cell == WindowCell(area, i, j)
                 who == occ[cell]
                 struck ==
                     IF ~is_road(m, cell) \/ who = 0 THEN ags
                     ELSE IF <<i, j>> \in death_radius
                     THEN [ags EXCEPT ![who].health_state = set_injury(@, "DECEASED")]
                     ELSE [ags EXCEPT ![who].health_state = set_injury(@, roll[who])]
             IN  injure_cells(m, occ, struck, area, roll, k + 1)

injure_near_disaster(m, occ, ags, location, roll) ==
    injure_cells(m, occ, ags, area_around_disaster(m, location), roll, 0)

\* the civilians whose injury the coin decides (line 71)
Rolled(m, occ, location) ==
    LET area == area_around_disaster(m, location)
    IN  {occ[c] : c \in {d \in flatten(area) :
                            /\ is_road(m, d)
                            /\ occ[d] # 0
                            /\ <<d[1] - area.rows.lo, d[2] - area.cols.lo>>
                                   \notin death_radius}}

-----------------------------------------------------------------------------
(* WorldEvents: subscribers is a function from the event names that have   *)
(* an entry to the list of their handlers.  A handler is named by its      *)
(* function name.                                                          *)

\* subscribers = {}
NoSubscribers == [event_name \in {} |-> <<>>]

\* is func in the list
Contains(list, func) == \E k \in 1 .. Len(list) : list[k] = func

\* subscribe without the test of line 24
subscribe_appending(subs, event_name, func) ==
    IF event_name \in DOMAIN subs
    THEN [subs EXCEPT ![event_name] = Append(@, func)]
    ELSE [e \in DOMAIN subs \cup {event_name} |->
             IF e = event_name THEN <<func>> ELSE subs[e]]

\* subscribe(event_name, func): the table after the call
subscribe(subs, event_name, func) ==
    LET created == IF event_name \in DOMAIN subs THEN subs
                   ELSE [e \in DOMAIN subs \cup {event_name} |->
                            IF e = event_name THEN <<>> ELSE subs[e]]
    IN  IF Contains(created[event_name], func) THEN created
        ELSE [created EXCEPT ![event_name] = Append(@, func)]

\* post reading the list of an unknown event as a new empty entry
post_creating_entry(subs, event_name) ==
    IF event_name \in DOMAIN subs
    THEN [subscribers |-> subs, called |-> subs[event_name]]
    ELSE [subscribers |-> [e \in DOMAIN subs \cup {event_name} |->
                              IF e = event_name THEN <<>> ELSE subs[e]],
          called |-> <<>>]

\* post(event_name, data): the table after the call and the handlers called,
\* in order
post(subs, event_name) ==
    IF event_name \notin DOMAIN subs
    THEN [subscribers |-> subs, called |-> <<>>]
    ELSE [subscribers |-> subs, called |-> subs[event_name]]

\* WorldHandlers.set_subscribe
set_subscribe(subs) == subscribe(subs, "disaster_start", "injure_near_disaster")

-----------------------------------------------------------------------------
(* Maps *)

r == TRUE

b == FALSE

\* a 5 x 5 grid: one road component around a wall
WalledMap ==
    << <<r, r, r, r, r>>,
       <<r, b, b, b, r>>,
       <<r, b, r, b, r>>,
       <<r, b, r, r, r>>,
       <<r, r, r, b, r>> >>

\* a 4 x 4 grid: four road components
IslandMap ==
    << <<r, r, b, r>>,
       <<r, b, b, r>>,
       <<b, b, b, b>>,
       <<r, r, b, r>> >>

TestMaps == {WalledMap, IslandMap}

NoCall == [op |-> "none"]

\* a 7 x 7 grid: a road block in the lower right, a spur towards the top
\* edge and a separate road component in the upper left corner
CityMap ==
    << <<r, r, b, b, b, b, b>>,
       <<r, b, b, b, b, b, b>>,
       <<b, b, b, r, b, b, b>>,
       <<b, b, b, r, r, r, r>>,
       <<b, b, b, r, b, r, r>>,
       <<b, b, b, r, r, r, r>>,
       <<b, b, b, r, r, r, r>> >>

-----------------------------------------------------------------------------
(* Spec: the world after World.__init__ spawned two civilians; World.update *)
(* ticks and one disaster.                                                 *)

\* the cells agent_spawn draws for the two civilians
SpawnCells == {<<3, 3>>, <<3, 4>>, <<5, 5>>, <<2, 3>>}

\* the coordinates a disaster is started at
DisasterCells == {<<4, 4>>, <<2, 3>>, <<5, 6>>, <<0, 0>>}

\* World(num_civilians = ...)
num_civilians == 2

(* World.agent_spawn, lines 127-140.  cells are the road cells the loop    *)
(* draws (line 130), in order; targets[k] is the road cell find_target     *)
(* draws for the k-th agent created.  The result is the agent list and the *)
(* count of agents still to place when the draws run out: the loop returns *)
(* when that count is 0.                                                   *)

\* the loop without the test of line 133
RECURSIVE agent_spawn_without_retry(_, _, _, _, _, _)
agent_spawn_without_retry(m, rg, ags, num_agents, cells, targets) ==
    IF num_agents = 0 \/ cells = <<>>
    THEN [agents |-> ags, num_agents |-> num_agents]
    ELSE agent_spawn_without_retry(m, rg,
             Append(ags, Civilian(m, rg, Head(cells), targets[Len(ags) + 1])),
             num_agents - 1, Tail(cells), targets)

RECURSIVE agent_spawn(_, _, _, _, _, _)
agent_spawn(m, rg, ags, num_agents, cells, targets) ==
    IF num_agents = 0 \/ cells = <<>>
    THEN [agents |-> ags, num_agents |-> num_agents]
    ELSE LET desired_cell == Head(cells)
         IN  IF Occupants(m, ags)[desired_cell] # 0
             THEN agent_spawn(m, rg, ags, num_agents, Tail(cells), targets)
             ELSE agent_spawn(m, rg,
                      Append(ags, Civilian(m, rg, desired_cell, targets[Len(ags) + 1])),
                      num_agents - 1, Tail(cells), targets)

Init ==
    /\ map = CityMap
    /\ road_graph = init_road_graph(CityMap)
    /\ \E cells \in [1 .. MaxDraws -> SpawnCells],
          targets \in [1 .. num_civilians -> RandomRoadCells] :
          LET spawned == agent_spawn(map, road_graph, <<>>, num_civilians,
                                     cells, targets)
          IN  /\ spawned.num_agents = 0
              /\ agents = spawned.agents
    /\ occupant = Occupants(map, agents)
    /\ disaster = {}
    /\ disaster_loc = <<>>
    /\ safe_cells = <<>>
    /\ err = ""
    /\ ticks = 0
    /\ ret = NoCall
    /\ worsen_calls = -1
    /\ subscribers = set_subscribe(NoSubscribers)

\* World.update
Tick ==
    /\ err = ""
    /\ ticks < MaxTicks
    /\ \E w \in World_update([agents |-> agents, occupant |-> occupant,
                              safe_cells |-> safe_cells, err |-> ""]) :
          /\ agents' = w.agents
          /\ occupant' = w.occupant
          /\ safe_cells' = w.safe_cells
          /\ err' = w.err
    /\ ticks' = ticks + 1
    /\ ret' = NoCall
    /\ UNCHANGED <<map, road_graph, subscribers, disaster, disaster_loc, worsen_calls>>

\* World.set_disaster_loc(location), called at Render.py line 96, is not
\* defined in World.py.  As the specification describes it (sections 3 and
\* 4.5): the shared disaster location is set once and the cell at location
\* carries the disaster mark that check_perception_wander reads.
set_disaster_loc(location) ==
    [disaster_loc |-> location, disaster |-> {location}]

\* The disaster starts at location (Render.py lines 95-97) and the
\* "disaster_start" event is posted, which runs its subscriber
\* injure_near_disaster.
DisasterStart(location) ==
    /\ err = ""
    /\ disaster_loc = <<>>
    /\ disaster_loc' = set_disaster_loc(location).disaster_loc
    /\ disaster' = set_disaster_loc(location).disaster
    /\ LET posted == post(subscribers, "disaster_start")
       IN  /\ subscribers' = posted.subscribers
           /\ IF Contains(posted.called, "injure_near_disaster")
              THEN \E roll \in [Rolled(map, occupant, location) ->
                                    {"INJURED", "GRAVELY_INJURED"}] :
                      agents' = injure_near_disaster(map, occupant, agents,
                                                     location, roll)
              ELSE agents' = agents
    /\ ret' = [op |-> "injure_near_disaster", location |-> location, before |-> agents]
    /\ UNCHANGED <<map, road_graph, occupant, safe_cells, err, ticks, worsen_calls>>

Next ==
    \/ Tick
    \/ \E location \in DisasterCells : DisasterStart(location)

Spec == Init /\ [][Next]_vars

-----------------------------------------------------------------------------
(* SpecHealth: one civilian; set_injury and worsen_health are called on it *)
(* directly, in any order.                                                 *)

InjuryLevels == {"INJURED", "GRAVELY_INJURED", "DECEASED"}

InitHealth ==
    /\ map = IslandMap
    /\ road_graph = init_road_graph(IslandMap)
    /\ \E h \in {"HEALTHY", "SICK"} :
          agents = << [Civilian(IslandMap, init_road_graph(IslandMap), <<0, 0>>, <<0, 0>>)
                        EXCEPT !.health_state = h] >>
    /\ occupant = Occupants(map, agents)
    /\ disaster = {}
    /\ disaster_loc = <<>>
    /\ safe_cells = <<>>
    /\ err = ""
    /\ ticks = 0
    /\ ret = NoCall
    /\ worsen_calls = -1
    /\ subscribers = NoSubscribers

CallSetInjury(injury_level) ==
    LET before == agents[1].health_state
        after == set_injury(before, injury_level)
    IN  /\ agents' = [agents EXCEPT ![1].health_state = after]
        /\ ret' = [op |-> "set_injury", before |-> before,
                   injury_level |-> injury_level, after |-> after]
        /\ worsen_calls' = IF before = "HEALTHY" /\ after = "INJURED" THEN 0 ELSE -1
        /\ UNCHANGED <<map, road_graph, subscribers, occupant, disaster, disaster_loc,
                       safe_cells, err, ticks>>

CallWorsenHealth ==
    /\ worsen_calls < MaxWorsenCalls
    /\ agents' = [agents EXCEPT ![1] = worsen_health(agents[1])]
    /\ ret' = [op |-> "worsen_health", before |-> agents[1].health_state,
               after |-> agents'[1].health_state]
    /\ worsen_calls' = IF worsen_calls >= 0 THEN worsen_calls + 1 ELSE -1
    /\ UNCHANGED <<map, road_graph, subscribers, occupant, disaster, disaster_loc,
                   safe_cells, err, ticks>>

NextHealth ==
    \/ \E injury_level \in InjuryLevels : CallSetInjury(injury_level)
    \/ CallWorsenHealth

SpecHealth == InitHealth /\ [][NextHealth]_vars

-----------------------------------------------------------------------------
(* SpecAgent: one agent on a test map; find_path is called on it directly. *)

InitAgent ==
    /\ map \in TestMaps
    /\ road_graph = init_road_graph(map)
    /\ \E location \in RoadCells(map), target \in RoadCells(map) :
          agents = << Civilian(map, road_graph, location, target) >>
    /\ occupant = Occupants(map, agents)
    /\ disaster = {}
    /\ disaster_loc = <<>>
    /\ safe_cells = <<>>
    /\ err = ""
    /\ ticks = 0
    /\ ret = NoCall
    /\ worsen_calls = -1
    /\ subscribers = NoSubscribers

CallFindPath(target) ==
    /\ ret = NoCall
    /\ ret' = [op |-> "find_path", start |-> agents[1].location, target |-> target,
               result |-> find_path(road_graph, agents[1].location, target)]
    /\ UNCHANGED <<map, road_graph, subscribers, agents, occupant, disaster, disaster_loc,
                   safe_cells, err, ticks, worsen_calls>>

\* find_target on the agent once it is in pattern FLEE and the shared
\* disaster location is dloc
CallFindTarget(dloc) ==
    /\ ret = NoCall
    /\ LET found == find_target_flee(road_graph, safe_cells, agents[1].location, dloc)
       IN  /\ ret' = [op |-> "find_target", location |-> agents[1].location,
                      disaster_loc |-> dloc, result |-> found.target,
                      err |-> found.err]
           /\ safe_cells' = found.safe_cells
    /\ UNCHANGED <<map, road_graph, subscribers, agents, occupant, disaster, disaster_loc,
                   err, ticks, worsen_calls>>

NextAgent ==
    \/ \E target \in RoadCells(map) : CallFindPath(target)
    \/ \E dloc \in Cells(map) : CallFindTarget(dloc)

SpecAgent == InitAgent /\ [][NextAgent]_vars

-----------------------------------------------------------------------------
(* Properties of the health state machine (SpecHealth)                     *)

\* C2: over any sequence of set_injury and worsen_health calls a civilian's
\* health_state never moves to a less severe state (HEALTHY < SICK < INJURED
\* < GRAVELY_INJURED < DECEASED); an injury applied to a DECEASED civilian
\* leaves it DECEASED.
C2_HealthNeverImproves ==
    [][HealthValue(agents'[1].health_state) >= HealthValue(agents[1].health_state)]_vars

\* C3: a civilian that has just become INJURED (timer unset) and gets one
\* worsen_health call per tick and no other injury is INJURED before the
\* 60th call, GRAVELY_INJURED from the 60th call and DECEASED from the 80th.
C3_DeteriorationAt60And80 ==
    worsen_calls >= 0 =>
        agents[1].health_state =
            IF worsen_calls < time_to_grave_injury THEN "INJURED"
            ELSE IF worsen_calls < time_to_grave_injury + time_to_death
            THEN "GRAVELY_INJURED"
            ELSE "DECEASED"

\* What worsen_health does on that run: the first call only sets the timer
\* and the call that finds it at 0 is the one that escalates, so the civilian
\* turns GRAVELY_INJURED at call 62 and DECEASED at call 83.
ObservedDeterioration ==
    worsen_calls >= 0 =>
        agents[1].health_state =
            IF worsen_calls < time_to_grave_injury + 2 THEN "INJURED"
            ELSE IF worsen_calls < time_to_grave_injury + time_to_death + 3
            THEN "GRAVELY_INJURED"
            ELSE "DECEASED"

\* the transition table of the health state machine, current state by
\* incoming injury
TransitionTable ==
    [HEALTHY |-> [INJURED |-> "INJURED", GRAVELY_INJURED |-> "GRAVELY_INJURED",
                  DECEASED |-> "DECEASED"],
     SICK |-> [INJURED |-> "GRAVELY_INJURED", GRAVELY_INJURED |-> "GRAVELY_INJURED",
               DECEASED |-> "DECEASED"],
     INJURED |-> [INJURED |-> "GRAVELY_INJURED", GRAVELY_INJURED |-> "GRAVELY_INJURED",
                  DECEASED |-> "DECEASED"],
     GRAVELY_INJURED |-> [INJURED |-> "DECEASED", GRAVELY_INJURED |-> "DECEASED",
                          DECEASED |-> "DECEASED"]]

\* C10: for every current state except DECEASED and every incoming level in
\* {INJURED, GRAVELY_INJURED, DECEASED}, set_injury produces the state the
\* transition table gives.
C10_TransitionTable ==
    (ret.op = "set_injury" /\ ret.before # "DECEASED") =>
        /\ ret.after = TransitionTable[ret.before][ret.injury_level]
        /\ agents[1].health_state = ret.after

C10_Witness ==
    /\ ret.op = "set_injury"
    /\ ret.before = "SICK"
    /\ ret.injury_level = "INJURED"
    /\ agents[1].health_state = "GRAVELY_INJURED"

-----------------------------------------------------------------------------
(* Properties of find_path (SpecAgent)                                     *)

\* the least number of 8-directional steps between road cells of map m, by
\* breadth-first search over the grid itself; -1 when there is no route
RECURSIVE BfsLevels(_, _, _, _, _)
BfsLevels(m, frontier, seen, target, d) ==
    IF target \in frontier THEN d
    ELSE IF frontier = {} THEN -1
    ELSE LET next == {c \in RoadCells(m) \ seen :
                         \E f \in frontier : Chebyshev(c, f) = 1}
         IN  BfsLevels(m, next, seen \cup next, target, d + 1)

BfsDist(m, start, target) == BfsLevels(m, {start}, {start}, target, 0)

IsStep(m, a, c) == is_road(m, a) /\ is_road(m, c) /\ Chebyshev(a, c) = 1

\* C4 as claimed: the sequence find_path returns for a reachable target does
\* not contain the start cell; it begins with a neighbour of start and ends
\* with target.
C4_PathExcludesStart ==
    (ret.op = "find_path" /\ BfsDist(map, ret.start, ret.target) >= 0) =>
        /\ ret.result # <<>>
        /\ \A k \in 1 .. Len(ret.result) : ret.result[k] # ret.start
        /\ IsStep(map, ret.start, ret.result[1])
        /\ ret.result[Len(ret.result)] = ret.target

\* C4 amended: the sequence find_path returns for a reachable target begins
\* with the start cell itself and ends with target, and every element after
\* the first is a road-graph neighbour of the one before it.
C4_PathStartsAtStart ==
    (ret.op = "find_path" /\ BfsDist(map, ret.start, ret.target) >= 0) =>
        /\ ret.result # <<>>
        /\ ret.result[1] = ret.start
        /\ ret.result[Len(ret.result)] = ret.target
        /\ \A k \in 1 .. Len(ret.result) - 1 :
              IsStep(map, ret.result[k], ret.result[k + 1])

C4_Witness ==
    /\ ret.op = "find_path"
    /\ Len(ret.result) >= 4
    /\ ret.result[1] = ret.start
    /\ ret.result[Len(ret.result)] = ret.target

\* C5 as claimed: for two road cells of one component the length of the
\* sequence find_path returns is the least number of steps between them.
C5_LengthIsStepCount ==
    (ret.op = "find_path" /\ BfsDist(map, ret.start, ret.target) >= 0) =>
        Len(ret.result) = BfsDist(map, ret.start, ret.target)

\* C5 amended: the sequence counts the start cell, so its length is the
\* least number of steps plus one (the moves along it are the least number).
C5_LengthIsStepCountPlusOne ==
    (ret.op = "find_path" /\ BfsDist(map, ret.start, ret.target) >= 0) =>
        Len(ret.result) = BfsDist(map, ret.start, ret.target) + 1

\* a route that has to go around a wall: longer than the open-grid distance
C5_Witness ==
    /\ ret.op = "find_path"
    /\ BfsDist(map, ret.start, ret.target) > Chebyshev(ret.start, ret.target)
    /\ Len(ret.result) = BfsDist(map, ret.start, ret.target) + 1

\* C6: when the target is in a road component not connected to the agent's
\* cell, find_path returns the empty sequence (no error, no partial path).
C6_NoRouteIsEmptyPath ==
    (ret.op = "find_path" /\ BfsDist(map, ret.start, ret.target) < 0) =>
        ret.result = <<>> /\ err = ""

C6_Witness ==
    /\ ret.op = "find_path"
    /\ is_road(map, ret.target)
    /\ BfsDist(map, ret.start, ret.target) < 0
    /\ ret.result = <<>>

\* C7: the safe cell find_target returns in FLEE never lies strictly on the
\* disaster side of the civilian: if the disaster's y is at or below the
\* civilian's y the target's y is >= the civilian's y, otherwise <=; and
\* likewise for x.
C7_TargetAwayFromDisaster ==
    (ret.op = "find_target" /\ ret.err = "") =>
        /\ IF ret.disaster_loc[1] <= ret.location[1]
           THEN ret.result[1] >= ret.location[1]
           ELSE ret.result[1] <= ret.location[1]
        /\ IF ret.disaster_loc[2] <= ret.location[2]
           THEN ret.result[2] >= ret.location[2]
           ELSE ret.result[2] <= ret.location[2]

-----------------------------------------------------------------------------
(* Properties of the world (Spec)                                          *)

\* C1: after every World.update, every cell whose occupant is set holds an
\* agent whose own location is that cell, every agent is the occupant of the
\* cell at its location, and no two agents have the same location.
C1_Occupancy ==
    /\ \A c \in Cells(map) :
          occupant[c] # 0 => agents[occupant[c]].location = c
    /\ \A i \in 1 .. Len(agents) : occupant[agents[i].location] = i
    /\ \A i, j \in 1 .. Len(agents) :
          i # j => agents[i].location # agents[j].location

\* two ticks were made, a civilian has moved off the spawn cells and the two
\* civilians stand next to each other
C1_Witness ==
    /\ ticks >= 2
    /\ err = ""
    /\ \E i \in 1 .. Len(agents) : agents[i].location \notin SpawnCells
    /\ Chebyshev(agents[1].location, agents[2].location) = 1
    /\ occupant[agents[1].location] = 1
    /\ occupant[agents[2].location] = 2

\* C8: after injure_near_disaster, for every disaster coordinate on the grid,
\* every civilian on a road cell at Chebyshev distance <= 1 from the disaster
\* coordinate is DECEASED.
C8_DeathRadiusKills ==
    ret.op = "injure_near_disaster" =>
        \A i \in 1 .. Len(agents) :
            (/\ is_road(map, agents[i].location)
             /\ Chebyshev(agents[i].location, ret.location) <= 1)
            => agents[i].health_state = "DECEASED"

\* C9: after injure_near_disaster, every civilian that was HEALTHY before the
\* impact and is on a road cell inside the 7 x 7 window but outside the death
\* radius is INJURED or GRAVELY_INJURED.
C9_OuterRingInjured ==
    ret.op = "injure_near_disaster" =>
        \A i \in 1 .. Len(agents) :
            (/\ ret.before[i].health_state = "HEALTHY"
             /\ is_road(map, agents[i].location)
             /\ Chebyshev(agents[i].location, ret.location) <= 3
             /\ Chebyshev(agents[i].location, ret.location) > 1)
            => agents[i].health_state \in {"INJURED", "GRAVELY_INJURED"}

\* the disaster coordinates whose window the slices of line 48 cut out as
\* intended: at least 3 cells from the top and from the left edge
WindowAsIntended(location) == location[1] >= 3 /\ location[2] >= 3

\* What injure_near_disaster does: C8 and C9 hold for these coordinates.
ObservedImpact ==
    (ret.op = "injure_near_disaster" /\ WindowAsIntended(ret.location)) =>
        \A i \in 1 .. Len(agents) :
            LET d == Chebyshev(agents[i].location, ret.location)
            IN  /\ d <= 1 => agents[i].health_state = "DECEASED"
                /\ (d > 1 /\ d <= 3 /\ ret.before[i].health_state = "HEALTHY")
                   => agents[i].health_state \in {"INJURED", "GRAVELY_INJURED"}

-----------------------------------------------------------------------------
(* Sick fast-track (SpecHealth)                                            *)

\* C11: a civilian whose health_state is SICK is never INJURED at any later
\* point, whatever set_injury and worsen_health calls follow.
C11_SickNeverInjured ==
    [](agents[1].health_state = "SICK" => [](agents[1].health_state # "INJURED"))

\* a SICK civilian has just received an injury of grade INJURED and is
\* GRAVELY_INJURED
C11_Witness ==
    /\ ret.op = "set_injury"
    /\ ret.before = "SICK"
    /\ ret.injury_level = "INJURED"
    /\ agents[1].health_state = "GRAVELY_INJURED"

-----------------------------------------------------------------------------
(* SpecFollow: one agent on CityMap with other civilians standing on some  *)
(* of the road cells next to it; follow_path is called on it directly.     *)

\* the civilians standing on the cells of blocked, in the order of the
\* road graph's neighbour list
Bystanders(m, rg, location, blocked) ==
    LET stands(c) == c \in blocked
        cells == SelectSeq(rg[location], stands)
    IN  [k \in 1 .. Len(cells) |-> Civilian(m, rg, cells[k], cells[k])]

\* the most calls of follow_path that have left the agent where it is
MaxHeld == 3

\* the civilian c after `held` calls of follow_path that each found no free
\* neighbour: each call has popped one waypoint (line 147) and returned the
\* civilian's own location
RECURSIVE Held(_, _)
Held(c, held) ==
    IF held = 0 \/ c.path = <<>>
    THEN c
    ELSE Held([c EXCEPT !.path = Tail(@)], held - 1)

InitFollow ==
    /\ map = CityMap
    /\ road_graph = init_road_graph(CityMap)
    /\ \E location \in RoadCells(map), target \in RandomRoadCells :
          \E blocked \in SUBSET {road_graph[location][k] :
                                    k \in 1 .. Len(road_graph[location])},
             held \in 0 .. MaxHeld :
             agents = << Held(Civilian(map, road_graph, location, target), held) >>
                      \o Bystanders(map, road_graph, location, blocked)
    /\ occupant = Occupants(map, agents)
    /\ disaster = {}
    /\ disaster_loc = <<>>
    /\ safe_cells = <<>>
    /\ err = ""
    /\ ticks = 0
    /\ ret = NoCall
    /\ worsen_calls = -1
    /\ subscribers = NoSubscribers

\* self.location = self.follow_path() on the first agent
CallFollowPath ==
    /\ ret = NoCall
    /\ LET u == follow_path([agents |-> agents, occupant |-> occupant,
                             safe_cells |-> safe_cells, err |-> ""], 1)
       IN  /\ agents' = u.agents
           /\ ret' = [op |-> "follow_path", location |-> agents[1].location,
                      path |-> agents[1].path,
                      result |-> u.agents[1].location, err |-> u.err]
    /\ UNCHANGED <<map, road_graph, subscribers, occupant, disaster, disaster_loc,
                   safe_cells, err, ticks, worsen_calls>>

NextFollow == CallFollowPath

SpecFollow == InitFollow /\ [][NextFollow]_vars

\* the 8 cells adjacent to c are all on the grid and each of them is
\* occupied or is not a road cell
AllNeighboursBlocked(m, occ, c) ==
    \A k \in 1 .. Len(possible_neighbours) :
        LET n == <<c[1] + possible_neighbours[k][1], c[2] + possible_neighbours[k][2]>>
        IN  /\ n \in Cells(m)
            /\ (occ[n] # 0 \/ ~is_road(m, n))

\* C12: if each of the 8 cells adjacent to an agent is occupied or is not a
\* road cell, follow_path returns the agent's current location unchanged.
C12_BlockedStaysInPlace ==
    (/\ ret.op = "follow_path"
     /\ AllNeighboursBlocked(map, occupant, ret.location))
    => (ret.err = "" /\ ret.result = ret.location)

\* the agents whose perception window World.set_perception cuts out as
\* intended and holds all 8 neighbours: at least 3 cells from the top and
\* the left edge, and not on the bottom or the right edge
NeighboursPerceived(m, c) ==
    /\ c[1] >= 3 /\ c[2] >= 3
    /\ c[1] + 1 < Height(m) /\ c[2] + 1 < Width(m)

\* What follow_path does: for these agents C12 holds.
ObservedBlocked ==
    (/\ ret.op = "follow_path"
     /\ NeighboursPerceived(map, ret.location)
     /\ AllNeighboursBlocked(map, occupant, ret.location))
    => (ret.err = "" /\ ret.result = ret.location)

-----------------------------------------------------------------------------
(* Properties of the civilians' behaviour over ticks and the disaster      *)
(* (Spec)                                                                  *)

\* C13: over any sequence of ticks and disaster events a civilian's pattern
\* never returns to WANDER once it has left it and never leaves SAFE once it
\* has entered it, so it only moves WANDER -> FLEE -> SAFE.
C13_PatternOneWay ==
    [][\A i \in 1 .. Len(agents) :
          /\ agents[i].pattern # "WANDER" => agents'[i].pattern # "WANDER"
          /\ agents[i].pattern = "SAFE" => agents'[i].pattern = "SAFE"]_vars

\* after the disaster one civilian has fled to a safe cell and is SAFE while
\* the other is in FLEE
C13_Witness ==
    /\ disaster_loc # <<>>
    /\ \E i, j \in 1 .. Len(agents) :
          /\ agents[i].pattern = "SAFE"
          /\ agents[j].pattern = "FLEE"


C15_NeverRaises == err = ""

\* C16: after spawn and after every tick each agent's perception window
\* consists of exactly the grid cells within Chebyshev distance 3 of the
\* agent's location (the 7 x 7 window clipped at the grid edges).
C16_PerceptionIsClippedWindow ==
    \A i \in 1 .. Len(agents) :
        flatten(agents[i].perception)
            = {c \in Cells(map) : Chebyshev(c, agents[i].location) <= 3}

\* What World.set_perception does: C16 holds for the agents at least 3 cells
\* from the top and from the left edge.
ObservedPerception ==
    \A i \in 1 .. Len(agents) :
        (agents[i].location[1] >= 3 /\ agents[i].location[2] >= 3)
        => flatten(agents[i].perception)
               = {c \in Cells(map) : Chebyshev(c, agents[i].location) <= 3}


\* C17: when agent_spawn(n, type) returns, exactly n new agents have been
\* appended to the agent list, each located on a road cell, no two agents
\* are on the same cell, and each agent's cell records that agent as its
\* occupant.
C17_SpawnPlacesAgents ==
    (ticks = 0 /\ disaster_loc = <<>>) =>
        /\ Len(agents) = num_civilians
        /\ \A i \in 1 .. Len(agents) :
              /\ is_road(map, agents[i].location)
              /\ occupant[agents[i].location] = i
        /\ \A i, j \in 1 .. Len(agents) :
              i # j => agents[i].location # agents[j].location
        /\ Cardinality({c \in Cells(map) : occupant[c] # 0}) = num_civilians

\* agent_spawn has returned with the two civilians on neighbouring cells
C17_Witness ==
    /\ ticks = 0
    /\ disaster_loc = <<>>
    /\ agents[1].location = <<3, 4>>
    /\ agents[2].location = <<3, 3>>
    /\ occupant[<<3, 4>>] = 1
    /\ occupant[<<3, 3>>] = 2

-----------------------------------------------------------------------------
(* SpecEvents: subscribe and post are called directly, in any order, on    *)
(* the initially empty table.                                              *)

EventNames == {"disaster_start", "civilian injured"}

Handlers == {"injure_near_disaster", "other_handler"}

InitEvents ==
    /\ map = IslandMap
    /\ road_graph = init_road_graph(IslandMap)
    /\ agents = <<>>
    /\ occupant = Occupants(map, agents)
    /\ disaster = {}
    /\ disaster_loc = <<>>
    /\ safe_cells = <<>>
    /\ err = ""
    /\ ticks = 0
    /\ ret = NoCall
    /\ worsen_calls = -1
    /\ subscribers = NoSubscribers

CallSubscribe(event_name, func) ==
    /\ subscribers' = subscribe(subscribers, event_name, func)
    /\ ret' = [op |-> "subscribe", event_name |-> event_name, func |-> func,
               before |-> subscribers]
    /\ UNCHANGED <<map, road_graph, agents, occupant, disaster, disaster_loc,
                   safe_cells, err, ticks, worsen_calls>>

CallPost(event_name) ==
    /\ LET posted == post(subscribers, event_name)
       IN  /\ subscribers' = posted.subscribers
           /\ ret' = [op |-> "post", event_name |-> event_name,
                      called |-> posted.called, before |-> subscribers]
    /\ UNCHANGED <<map, road_graph, agents, occupant, disaster, disaster_loc,
                   safe_cells, err, ticks, worsen_calls>>

NextEvents ==
    \/ \E event_name \in EventNames, func \in Handlers :
          CallSubscribe(event_name, func)
    \/ \E event_name \in EventNames : CallPost(event_name)

SpecEvents == InitEvents /\ [][NextEvents]_vars

\* how many times func is in the list
Count(list, func) == Cardinality({k \in 1 .. Len(list) : list[k] = func})

\* C18: subscribe is idempotent per (event name, handler) pair: however many
\* times a handler is subscribed to an event, the event's list holds it
\* exactly once, subscribing it again changes nothing, and a post of the
\* event calls it exactly once.
C18_SubscribeIdempotent ==
    /\ \A event_name \in DOMAIN subscribers, func \in Handlers :
          Count(subscribers[event_name], func) <= 1
    /\ ret.op = "subscribe" =>
          /\ Count(subscribers[ret.event_name], ret.func) = 1
          /\ (/\ ret.event_name \in DOMAIN ret.before
              /\ Contains(ret.before[ret.event_name], ret.func))
             => subscribers = ret.before
    /\ ret.op = "post" =>
          \A func \in Handlers :
              Count(ret.called, func) =
                  IF /\ ret.event_name \in DOMAIN ret.before
                     /\ Contains(ret.before[ret.event_name], func)
                  THEN 1 ELSE 0

\* a handler that was already subscribed to the event has been subscribed
\* to it again, next to another handler of the same event
C18_Witness ==
    /\ ret.op = "subscribe"
    /\ ret.event_name \in DOMAIN ret.before
    /\ Contains(ret.before[ret.event_name], ret.func)
    /\ Len(subscribers[ret.event_name]) = 2

\* C19: post of an event name that has no subscribers calls no handler and
\* leaves the subscribers table unchanged; it creates no entry for the name.
C19_PostWithoutSubscribersIsNoOp ==
    (/\ ret.op = "post"
     /\ (\/ ret.event_name \notin DOMAIN ret.before
         \/ ret.before[ret.event_name] = <<>>))
    => /\ ret.called = <<>>
       /\ subscribers = ret.before
       /\ DOMAIN subscribers = DOMAIN ret.before

\* an event without an entry has been posted while the other event has
\* subscribers
C19_Witness ==
    /\ ret.op = "post"
    /\ ret.event_name \notin DOMAIN ret.before
    /\ ret.called = <<>>
    /\ DOMAIN subscribers # {}
    /\ ret.event_name \notin DOMAIN subscribers

-----------------------------------------------------------------------------
(* SpecDecay: one wandering civilian, who finds no route to any target it  *)
(* draws, is injured once and World.update is called again and again.      *)

\* a 7 x 7 grid of four road cells with no road between them: the cell
\* <<3, 3>> of the civilian and the three cells of RandomRoadCells
SingleCellsMap ==
    << <<r, b, b, b, b, b, b>>,
       <<b, b, b, b, b, b, b>>,
       <<b, b, b, b, b, b, b>>,
       <<b, b, b, r, b, b, r>>,
       <<b, b, b, b, b, b, b>>,
       <<b, b, b, b, b, b, b>>,
       <<b, b, b, r, b, b, b>> >>

InitDecay ==
    /\ map = SingleCellsMap
    /\ road_graph = init_road_graph(SingleCellsMap)
    /\ \E target \in RandomRoadCells :
          agents = << Civilian(map, road_graph, <<3, 3>>, target) >>
    /\ occupant = Occupants(map, agents)
    /\ disaster = {}
    /\ disaster_loc = <<>>
    /\ safe_cells = <<>>
    /\ err = ""
    /\ ticks = 0
    /\ ret = NoCall
    /\ worsen_calls = -1
    /\ subscribers = set_subscribe(NoSubscribers)

\* the one injury: set_injury(injury_level) on the civilian
Injure(injury_level) ==
    /\ ret = NoCall
    /\ err = ""
    /\ agents' = [agents EXCEPT
                    ![1].health_state = set_injury(@, injury_level)]
    /\ ret' = [op |-> "set_injury", before |-> agents[1].health_state,
               injury_level |-> injury_level,
               after |-> agents'[1].health_state]
    /\ UNCHANGED <<map, road_graph, subscribers, occupant, disaster,
                   disaster_loc, safe_cells, err, ticks, worsen_calls>>

\* World.update, any number of times; ticks counts the calls modulo 2
TickOn ==
    /\ err = ""
    /\ \E w \in World_update([agents |-> agents, occupant |-> occupant,
                              safe_cells |-> safe_cells, err |-> ""]) :
          /\ agents' = w.agents
          /\ occupant' = w.occupant
          /\ safe_cells' = w.safe_cells
          /\ err' = w.err
    /\ ticks' = 1 - ticks
    /\ UNCHANGED <<map, road_graph, subscribers, disaster, disaster_loc,
                   ret, worsen_calls>>

NextDecay ==
    \/ \E injury_level \in {"INJURED", "GRAVELY_INJURED"} : Injure(injury_level)
    \/ TickOn

\* a call of World.update is made: the steps that change ticks are the
\* TickOn steps, and one is possible as long as no call has raised
TickMade == err = "" /\ ticks' = 1 - ticks

\* the main loop calls World.update again and again (Render.py line 90)
SpecDecay == InitDecay /\ [][NextDecay]_vars /\ WF_ticks(TickMade)

\* C20: under repeated World.update ticks with no further external injury,
\* every civilian that becomes INJURED eventually becomes GRAVELY_INJURED and
\* every civilian that is GRAVELY_INJURED eventually becomes DECEASED.
C20_InjuredEventuallyDies ==
    /\ (agents[1].health_state = "INJURED")
          ~> (agents[1].health_state = "GRAVELY_INJURED")
    /\ (agents[1].health_state = "GRAVELY_INJURED")
          ~> (agents[1].health_state = "DECEASED")

\* What Civilian.update does: once GRAVELY_INJURED the civilian stays
\* GRAVELY_INJURED, with the timer it had, however many ticks follow.
ObservedGravelyInjuredStays ==
    [][agents[1].health_state = "GRAVELY_INJURED" =>
          /\ agents'[1].health_state = "GRAVELY_INJURED"
          /\ agents'[1].time_to_worsen = agents[1].time_to_worsen]_vars


\* What the ticks do for an INJURED civilian: it does become
\* GRAVELY_INJURED, with the timer set to 20.
ObservedInjuredWorsens ==
    (agents[1].health_state = "INJURED")
        ~> (/\ agents[1].health_state = "GRAVELY_INJURED"
            /\ agents[1].time_to_worsen = time_to_death)


-----------------------------------------------------------------------------
(* SpecFlee: one civilian on CityMap, a disaster that starts once, and     *)
(* World.update called again and again.                                    *)

InitFlee ==
    /\ map = CityMap
    /\ road_graph = init_road_graph(CityMap)
    /\ \E location \in SpawnCells, target \in RandomRoadCells :
          agents = agent_spawn(map, road_graph, <<>>, 1,
                               <<location>>, <<target>>).agents
    /\ occupant = Occupants(map, agents)
    /\ disaster = {}
    /\ disaster_loc = <<>>
    /\ safe_cells = <<>>
    /\ err = ""
    /\ ticks = 0
    /\ ret = NoCall
    /\ worsen_calls = -1
    /\ subscribers = set_subscribe(NoSubscribers)

NextFlee ==
    \/ TickOn
    \/ \E location \in DisasterCells : DisasterStart(location)

\* the main loop calls World.update again and again (Render.py line 90)
SpecFlee == InitFlee /\ [][NextFlee]_vars /\ WF_ticks(TickMade)

\* C21: under repeated ticks, a civilian that enters the Flee pattern
\* eventually is Safe or Deceased: none stays in Flee and alive forever.
\* The runs in which World.update raises an error, after which no tick is
\* made, are left aside.
C21_FleeEndsSafeOrDeceased ==
    (agents[1].pattern = "FLEE")
        ~> (\/ agents[1].pattern = "SAFE"
            \/ agents[1].health_state = "DECEASED"
            \/ err # "")


-----------------------------------------------------------------------------
(* Properties of follow_path's choice of the next cell (SpecFollow)        *)

\* the offsets of the 8 adjacent cells in the order of enumeration
AdjacentOffsets ==
    << <<-1, -1>>, <<-1, 0>>, <<-1, 1>>, <<0, -1>>,
       <<1, -1>>, <<0, 1>>, <<1, 1>>, <<1, 0>> >>

AdjacentCell(c, k) == <<c[1] + AdjacentOffsets[k][1], c[2] + AdjacentOffsets[k][2]>>

\* the positions in AdjacentOffsets of the cells adjacent to c that are on
\* the grid, are road cells and have no occupant
FreeAdjacent(m, occ, c) ==
    {k \in 1 .. Len(AdjacentOffsets) :
        /\ AdjacentCell(c, k) \in Cells(m)
        /\ is_road(m, AdjacentCell(c, k))
        /\ occ[AdjacentCell(c, k)] = 0}

\* the first of the free adjacent cells among those closest to waypoint
NearestFreeAdjacent(m, occ, c, waypoint) ==
    LET free == FreeAdjacent(m, occ, c)
        dist(k) == Chebyshev(AdjacentCell(c, k), waypoint)
        best == CHOOSE k \in free :
                    \A j \in free : dist(k) < dist(j) \/ (dist(k) = dist(j) /\ k <= j)
    IN  AdjacentCell(c, best)

\* the waypoint of the call recorded in ret: the head of the path, or the
\* head of the path planned anew when that one is 3 or more cells away
WaypointOfCall ==
    IF strayed(ret.location, Head(ret.path))
    THEN Head(find_path(road_graph, ret.location, agents[1].target))
    ELSE Head(ret.path)

\* C22: with a non-empty path (and a free adjacent road cell) follow_path
\* returns the adjacent free road cell closest (Chebyshev) to the current
\* waypoint, the first in the enumeration order among those tied.
C22_NearestFreeNeighbour ==
    (/\ ret.op = "follow_path"
     /\ ret.path # <<>>
     /\ FreeAdjacent(map, occupant, ret.location) # {})
    => (/\ ret.err = ""
        /\ ret.result = NearestFreeAdjacent(map, occupant, ret.location, WaypointOfCall))

\* What follow_path does: C22 holds for the agents whose perception window
\* holds all 8 neighbours, when the call has not raised.
ObservedNearestFreeNeighbour ==
    (/\ ret.op = "follow_path"
     /\ ret.path # <<>>
     /\ FreeAdjacent(map, occupant, ret.location) # {}
     /\ (NeighboursPerceived(map, ret.location) \/ ret.err = ""))
    => (/\ ret.err = ""
        /\ ret.result = NearestFreeAdjacent(map, occupant, ret.location, WaypointOfCall))


-----------------------------------------------------------------------------
(* Properties of find_target's choice in FLEE (SpecAgent)                  *)

\* the safe cells that do not lie on the disaster's side of the civilian of
\* the call recorded in ret, in safe-cell order
EligibleSafeCells ==
    LET away(edge) ==
            /\ IF ret.disaster_loc[1] <= ret.location[1]
               THEN edge[1] >= ret.location[1] ELSE edge[1] <= ret.location[1]
            /\ IF ret.disaster_loc[2] <= ret.location[2]
               THEN edge[2] >= ret.location[2] ELSE edge[2] <= ret.location[2]
    IN  SelectSeq(safe_cells, away)

\* the first of the eligible safe cells among those closest to the civilian
NearestEligibleSafeCell ==
    LET eligible == EligibleSafeCells
        dist(k) == Chebyshev(eligible[k], ret.location)
        best == CHOOSE k \in 1 .. Len(eligible) :
                    \A j \in 1 .. Len(eligible) :
                        dist(k) < dist(j) \/ (dist(k) = dist(j) /\ k <= j)
    IN  eligible[best]

\* C23: in FLEE find_target returns the eligible safe cell of minimum
\* Chebyshev distance to the civilian, the first in safe-cell order among
\* those tied.
C23_NearestEligibleSafeCell ==
    (ret.op = "find_target" /\ EligibleSafeCells # <<>>)
    => (ret.err = "" /\ ret.result = NearestEligibleSafeCell)

\* What find_target does: its result is one of the safe cells, eligible or
\* not.
ObservedTargetIsSafeCell ==
    (ret.op = "find_target" /\ ret.err = "")
    => \E k \in 1 .. Len(safe_cells) : ret.result = safe_cells[k]


-----------------------------------------------------------------------------
(* SpecPerceive: one civilian (agent 1) with a crowd of other civilians    *)
(* around it, some of them fleeing and some deceased;                      *)
(* check_perception is called on agent 1 directly.                         *)

\* a 7 x 7 grid of road cells only
OpenMap == [y \in 1 .. 7 |-> [x \in 1 .. 7 |-> r]]

\* all cells of the grid m in row-major order
CellsInOrder(m) ==
    [k \in 1 .. Height(m) * Width(m) |-> <<(k - 1) \div Width(m), (k - 1) % Width(m)>>]

\* the road cells other than location that are at most 3 cells away from it
CellsAround(m, location) ==
    LET near(c) == is_road(m, c) /\ c # location /\ Chebyshev(c, location) <= 3
    IN  SelectSeq(CellsInOrder(m), near)

\* the sizes of the crowd, the numbers of fleeing and of deceased civilians
\* in it
CrowdSizes == {0, 6, 7, 20, 21}

FleeingCounts == {0, 5, 6}

DeceasedCounts == {0, 1}

\* a civilian that has switched to FLEE at cell (check_perception_wander)
Fleeing(c, rg, sc, dloc) ==
    LET found == find_target_flee(rg, sc, c.location, dloc)
    IN  [c EXCEPT !.pattern = "FLEE",
                  !.target = found.target,
                  !.path = find_path(rg, c.location, found.target)]

\* the crowd: civilians on the first size cells of cells, the first dead of
\* them DECEASED and the last fleeing of them in FLEE
Crowd(m, rg, cells, size, dead, fleeing, dloc) ==
    [k \in 1 .. size |->
        LET c == Civilian(m, rg, cells[k], cells[k])
        IN  IF k <= dead THEN [c EXCEPT !.health_state = "DECEASED"]
            ELSE IF k > size - fleeing
            THEN Fleeing(c, rg, populate_safe_cells(rg), dloc)
            ELSE c]

InitPerceive ==
    /\ map \in {CityMap, OpenMap}
    /\ road_graph = init_road_graph(map)
    /\ \E location \in {<<5, 5>>, <<2, 3>>},
          pattern \in {"WANDER", "FLEE"},
          health_state \in {"HEALTHY", "INJURED"},
          dloc \in {<<>>, <<0, 0>>, <<3, 3>>},
          size \in CrowdSizes, dead \in DeceasedCounts, fleeing \in FleeingCounts :
          LET cells == CellsAround(map, location)
              sc == populate_safe_cells(road_graph)
              c == [Civilian(map, road_graph, location, <<3, 6>>)
                      EXCEPT !.health_state = health_state]
          IN  /\ size <= Len(cells)
              /\ dead + fleeing <= size
              \* civilians flee and die only once the disaster has started,
              \* and die next to it
              /\ dloc = <<>> => (pattern = "WANDER" /\ dead = 0 /\ fleeing = 0)
              /\ \A k \in 1 .. dead : Chebyshev(cells[k], dloc) <= 1
              /\ \A k \in size - fleeing + 1 .. size :
                    find_target_flee(road_graph, sc, cells[k], dloc).err = ""
              /\ pattern = "FLEE"
                    => find_target_flee(road_graph, sc, location, dloc).err = ""
              /\ agents = << IF pattern = "FLEE"
                             THEN Fleeing(c, road_graph, sc, dloc) ELSE c >>
                          \o Crowd(map, road_graph, cells, size, dead, fleeing, dloc)
              /\ disaster_loc = dloc
              /\ disaster = IF dloc = <<>> THEN {} ELSE {dloc}
              /\ safe_cells = IF pattern = "FLEE" \/ fleeing > 0 THEN sc ELSE <<>>
    /\ occupant = Occupants(map, agents)
    /\ err = ""
    /\ ticks = 0
    /\ ret = NoCall
    /\ worsen_calls = -1
    /\ subscribers = set_subscribe(NoSubscribers)

\* self.check_perception() on agent 1
CallCheckPerception ==
    /\ ret = NoCall
    /\ LET w == [agents |-> agents, occupant |-> occupant,
                 safe_cells |-> safe_cells, err |-> ""]
       IN  \E trampled \in RandomTrample(w, 1) :
              LET u == check_perception(w, 1, trampled)
              IN  /\ agents' = u.agents
                  /\ safe_cells' = u.safe_cells
                  /\ ret' = [op |-> "check_perception", before |-> agents[1],
                             after |-> u.agents[1], trampled |-> trampled,
                             err |-> u.err]
    /\ UNCHANGED <<map, road_graph, subscribers, occupant, disaster, disaster_loc,
                   err, ticks, worsen_calls>>

NextPerceive == CallCheckPerception

SpecPerceive == InitPerceive /\ [][NextPerceive]_vars

\* the cells at most 3 cells away from location: the perception window,
\* clipped at the grid's edges
WindowAround(m, location) == {c \in Cells(m) : Chebyshev(c, location) <= 3}

\* the other civilians in FLEE in the window of the call recorded in ret
FleeingAround ==
    {j \in 2 .. Len(agents) :
        /\ agents[j].location \in WindowAround(map, ret.before.location)
        /\ agents[j].pattern = "FLEE"}

\* the window holds a disaster cell or more than 5 fleeing civilians
DangerAround ==
    \/ \E c \in WindowAround(map, ret.before.location) : c \in disaster
    \/ Cardinality(FleeingAround) > 5

\* C24: a Wander civilian switches to Flee if and only if its perception
\* window holds a disaster cell or more than 5 cells whose occupant is a
\* civilian in Flee; when it switches, its target and path are recomputed
\* for Flee in the same call.
C24_SwitchIffDanger ==
    (ret.op = "check_perception" /\ ret.before.pattern = "WANDER")
    => /\ (ret.after.pattern = "FLEE") <=> DangerAround
       /\ ret.after.pattern = "FLEE"
            => /\ ret.err = ""
               /\ \E k \in 1 .. Len(safe_cells) : ret.after.target = safe_cells[k]
               /\ ret.after.path = find_path(road_graph, ret.before.location,
                                             ret.after.target)

\* What check_perception does: C24 holds for the civilians that are at
\* least 3 cells from the top and the left edge.
ObservedSwitchIffDanger ==
    (/\ ret.op = "check_perception" /\ ret.before.pattern = "WANDER"
     /\ ret.before.location[1] >= 3 /\ ret.before.location[2] >= 3)
    => /\ (ret.after.pattern = "FLEE") <=> DangerAround
       /\ ret.after.pattern = "FLEE"
            => /\ ret.err = ""
               /\ \E k \in 1 .. Len(safe_cells) : ret.after.target = safe_cells[k]
               /\ ret.after.path = find_path(road_graph, ret.before.location,
                                             ret.after.target)


\* the other civilians in the window of the call recorded in ret that are
\* not DECEASED
AliveAround ==
    {j \in 2 .. Len(agents) :
        /\ agents[j].location \in WindowAround(map, ret.before.location)
        /\ agents[j].health_state # "DECEASED"}

-----------------------------------------------------------------------------
(* SpecUpdate: the worlds of SpecPerceive; World.update's loop body is run *)
(* for agent 1 again and again, while the civilians around it stand still. *)

\* lines 183-191 for agent 1: agent.update(), then the occupancy and the
\* perception are written
CallUpdate ==
    /\ err = ""
    /\ ticks < MaxTicks
    /\ LET w == [agents |-> agents, occupant |-> occupant,
                 safe_cells |-> safe_cells, err |-> ""]
       IN  \E random_cell \in RandomCells(w, 1), trampled \in RandomTrample(w, 1) :
              LET u == Civilian_update(w, 1, random_cell, trampled)
                  v == IF u.err = "" THEN commit(u, 1, agents[1].location) ELSE u
              IN  /\ agents' = v.agents
                  /\ occupant' = v.occupant
                  /\ safe_cells' = v.safe_cells
                  /\ err' = v.err
                  /\ ret' = [op |-> "update", before |-> agents[1],
                             after |-> v.agents[1], err |-> v.err]
    /\ ticks' = ticks + 1
    /\ UNCHANGED <<map, road_graph, subscribers, disaster, disaster_loc,
                   worsen_calls>>

NextUpdate == CallUpdate

SpecUpdate == InitPerceive /\ [][NextUpdate]_vars

\* cell is one of the safe cells
IsSafeCell(cell) == \E k \in 1 .. Len(safe_cells) : safe_cells[k] = cell

\* C25 as stated: a Flee civilian whose location is any safe cell at its
\* update becomes Safe in that update without moving, and the location of a
\* Safe civilian never changes afterwards.
C25_FleeAtSafeCellBecomesSafe ==
    /\ [](/\ ret.op = "update"
          /\ ret.before.pattern = "FLEE"
          /\ IsSafeCell(ret.before.location)
          => /\ ret.after.pattern = "SAFE"
             /\ ret.after.location = ret.before.location)
    /\ [][agents[1].pattern = "SAFE"
            => /\ agents'[1].location = agents[1].location
               /\ agents'[1].pattern = "SAFE"]_vars

\* C25 amended: the same for a Flee civilian that is neither GravelyInjured
\* nor Deceased when its update begins.
C25_UnfrozenFleeAtSafeCellBecomesSafe ==
    /\ [](/\ ret.op = "update"
          /\ ret.before.pattern = "FLEE"
          /\ ret.before.health_state \notin {"GRAVELY_INJURED", "DECEASED"}
          /\ IsSafeCell(ret.before.location)
          => /\ ret.after.pattern = "SAFE"
             /\ ret.after.location = ret.before.location)
    /\ [][agents[1].pattern = "SAFE"
            => /\ agents'[1].location = agents[1].location
               /\ agents'[1].pattern = "SAFE"]_vars

\* a fleeing civilian stood on a safe cell that is not its target, was
\* updated and is Safe on that cell
C25_Witness ==
    /\ ret.op = "update"
    /\ ret.before.pattern = "FLEE"
    /\ ret.before.health_state \notin {"GRAVELY_INJURED", "DECEASED"}
    /\ IsSafeCell(ret.before.location)
    /\ ret.before.location # ret.before.target
    /\ ret.after.pattern = "SAFE"
    /\ agents[1].location = ret.before.location


-----------------------------------------------------------------------------
(* Properties of planning in Civilian.update (Spec)                        *)

\* civilian i is not stopped by line 236 when its update begins
Unfrozen(i) ==
    /\ agents[i].pattern # "SAFE"
    /\ agents[i].health_state \notin {"GRAVELY_INJURED", "DECEASED"}

\* in this step World.update ran to its end and civilian i, wandering with
\* an empty path, stayed in WANDER: it drew a new random target (line 252)
DrawsTarget(i) ==
    /\ ticks' = ticks + 1
    /\ err' = ""
    /\ Unfrozen(i)
    /\ agents[i].pattern = "WANDER"
    /\ agents[i].path = <<>>
    /\ agents'[i].pattern = "WANDER"

\* C26: whenever a Wander civilian draws a new random target in update,
\* because its path is empty, its location equals the target it held.
C26_DrawsOnlyOnArrival ==
    [][\A i \in 1 .. Len(agents) :
          DrawsTarget(i) => agents[i].location = agents[i].target]_vars

\* What the code does when a route to the target exists: the civilian that
\* draws is on its target or next to it.
ObservedDrawsNearTarget ==
    [][\A i \in 1 .. Len(agents) :
          (DrawsTarget(i) /\ BfsDist(map, agents[i].location, agents[i].target) >= 0)
          => Chebyshev(agents[i].location, agents[i].target) <= 1]_vars


\* in this step World.update ran to its end and civilian i, in FLEE with an
\* empty path and no route to its target, was updated and is still in FLEE
PlansWithoutRoute(i) ==
    /\ ticks' = ticks + 1
    /\ err' = ""
    /\ Unfrozen(i)
    /\ agents[i].pattern = "FLEE"
    /\ agents[i].path = <<>>
    /\ BfsDist(map, agents[i].location, agents[i].target) < 0
    /\ agents'[i].pattern = "FLEE"

\* C27: when find_path has returned an empty path (no route to the current
\* target) the caller chooses a new target instead of faulting or trying
\* the same target again.  A Wander civilian draws a new target at random
\* (line 252), which may be the same cell; the formula states the property
\* for a civilian in Flee.
C27_NoRouteChoosesNewTarget ==
    [][\A i \in 1 .. Len(agents) :
          PlansWithoutRoute(i) => agents'[i].target # agents[i].target]_vars

\* What the code does: the civilian in Flee keeps its target and its empty
\* path and stays where it is.
ObservedFleeRetriesSameTarget ==
    [][\A i \in 1 .. Len(agents) :
          PlansWithoutRoute(i) => /\ agents'[i].target = agents[i].target
                                  /\ agents'[i].path = <<>>
                                  /\ agents'[i].location = agents[i].location]_vars


-----------------------------------------------------------------------------
(* SpecContend: the world of Spec without a disaster; every call of        *)
(* World.update records the agents as they were before it.                 *)

TickRecorded ==
    /\ err = ""
    /\ ticks < MaxTicks
    /\ \E w \in World_update([agents |-> agents, occupant |-> occupant,
                              safe_cells |-> safe_cells, err |-> ""]) :
          /\ agents' = w.agents
          /\ occupant' = w.occupant
          /\ safe_cells' = w.safe_cells
          /\ err' = w.err
    /\ ticks' = ticks + 1
    /\ ret' = [op |-> "update", before |-> agents]
    /\ UNCHANGED <<map, road_graph, subscribers, disaster, disaster_loc,
                   worsen_calls>>

NextContend == TickRecorded

SpecContend == Init /\ [][NextContend]_vars

\* the cell civilian i of the agents ags would be on after its update if it
\* were the only one updated: <<>> if it has no path to follow or the update
\* raises
ChoiceAlone(ags, i) ==
    LET w == [agents |-> ags, occupant |-> Occupants(map, ags),
              safe_cells |-> safe_cells, err |-> ""]
        u == Civilian_update(w, i, ags[i].location, FALSE)
    IN  IF ags[i].path = <<>> \/ u.err # "" THEN <<>> ELSE u.agents[i].location

\* before the call recorded in ret the two civilians would both have chosen
\* the same cell, free and not their own
Contended ==
    /\ ret.op = "update"
    /\ ChoiceAlone(ret.before, 1) # <<>>
    /\ ChoiceAlone(ret.before, 1) = ChoiceAlone(ret.before, 2)
    /\ ChoiceAlone(ret.before, 1) \notin {ret.before[1].location, ret.before[2].location}

\* C28: within one tick the agents are updated and committed one at a time
\* in insertion order and a later agent sees the occupancy committed by the
\* earlier ones: the first agent moves as if it were alone, the second moves
\* as it would alone in the world the first has left, and when both would
\* choose the same free cell the first moves into it and the second does
\* not enter it.
C28_EarlierAgentWins ==
    ret.op = "update"
    => /\ ChoiceAlone(ret.before, 1) # <<>>
            => agents[1].location = ChoiceAlone(ret.before, 1)
       /\ err = "" /\ ret.before[2].path # <<>>
            => agents[2].location = ChoiceAlone(<<agents[1], ret.before[2]>>, 2)
       /\ Contended
            => /\ err = ""
               /\ agents[1].location = ChoiceAlone(ret.before, 1)
               /\ agents[2].location # agents[1].location
               /\ occupant[agents[1].location] = 1
               /\ occupant[agents[2].location] = 2

\* both civilians would have chosen the same cell; World.update has run
C28_Witness ==
    /\ Contended
    /\ err = ""
    /\ agents[1].location = ChoiceAlone(ret.before, 1)
    /\ agents[2].location # ret.before[2].location


-----------------------------------------------------------------------------
(* SpecSpawn: World.agent_spawn step by step, one iteration of its loop    *)
(* per step.  ret holds the loop's local state: num_agents, the agents     *)
(* still to place, and desired_cell, the cell drawn last.                  *)

\* a 2 x 2 grid with three road cells
CornerMap ==
    << <<r, r>>,
       <<r, b>> >>

\* the largest number of agents requested
MaxAgents == 4

InitSpawn ==
    /\ map = CornerMap
    /\ road_graph = init_road_graph(CornerMap)
    /\ agents = <<>>
    /\ occupant = Occupants(map, agents)
    /\ disaster = {}
    /\ disaster_loc = <<>>
    /\ safe_cells = <<>>
    /\ err = ""
    /\ ticks = 0
    /\ \E num_agents \in 1 .. MaxAgents :
          ret = [op |-> "agent_spawn", num_agents |-> num_agents,
                 desired_cell |-> <<>>]
    /\ worsen_calls = -1
    /\ subscribers = set_subscribe(NoSubscribers)

\* lines 127-140: one iteration of the loop that draws desired_cell
SpawnDraw(desired_cell) ==
    /\ ret.op = "agent_spawn"
    /\ ret.num_agents > 0
    /\ IF occupant[desired_cell] # 0
       THEN \* continue
            /\ ret' = [ret EXCEPT !.desired_cell = desired_cell]
            /\ UNCHANGED <<agents, occupant>>
       ELSE \E target \in RoadCells(map) :
               /\ agents' = Append(agents,
                                   Civilian(map, road_graph, desired_cell, target))
               /\ occupant' = [occupant EXCEPT ![desired_cell] = Len(agents) + 1]
               /\ ret' = [ret EXCEPT !.desired_cell = desired_cell,
                                     !.num_agents = @ - 1]
    /\ UNCHANGED <<map, road_graph, subscribers, disaster, disaster_loc,
                   safe_cells, err, ticks, worsen_calls>>

NextSpawn == \E desired_cell \in RoadCells(map) : SpawnDraw(desired_cell)

\* random.randrange draws every road cell again and again
SpecSpawn ==
    /\ InitSpawn
    /\ [][NextSpawn]_vars
    /\ \A desired_cell \in RoadCells(CornerMap) : WF_vars(SpawnDraw(desired_cell))

\* C30: agent_spawn terminates for every requested number of agents, also
\* when that number exceeds the number of unoccupied road cells: the loop,
\* which runs while num_agents > 0, ends.
C30_SpawnTerminates == <>(ret.num_agents = 0)

\* What agent_spawn does: it terminates when the requested number of agents
\* is at most the number of road cells, with every requested agent placed.
ObservedSpawnTerminates ==
    (ret.num_agents <= Cardinality(RoadCells(map)))
        => <>(ret.num_agents = 0 /\ Len(agents) <= Cardinality(RoadCells(map)))

\* What agent_spawn does otherwise: once every road cell is occupied it
\* draws for ever.
ObservedSpawnSaturated ==
    [](Len(agents) = Cardinality(RoadCells(map)) /\ ret.num_agents > 0
        => [](ret.num_agents > 0))


-----------------------------------------------------------------------------
(* SpecIsland: the world after World.__init__ spawned one civilian on the  *)
(* 4 x 4 grid IslandMap (any road cell, any road cell as the target drawn  *)
(* by find_target); World.update ticks and one disaster.                   *)

\* the coordinates a disaster is started at on IslandMap
IslandDisasterCells == {<<0, 0>>, <<3, 3>>}

InitIsland ==
    /\ map = IslandMap
    /\ road_graph = init_road_graph(IslandMap)
    /\ \E location \in RoadCells(IslandMap), target \in RoadCells(IslandMap) :
          LET spawned == agent_spawn(map, road_graph, <<>>, 1,
                                     <<location>>, <<target>>)
          IN  /\ spawned.num_agents = 0
              /\ agents = spawned.agents
    /\ occupant = Occupants(map, agents)
    /\ disaster = {}
    /\ disaster_loc = <<>>
    /\ safe_cells = <<>>
    /\ err = ""
    /\ ticks = 0
    /\ ret = NoCall
    /\ worsen_calls = -1
    /\ subscribers = set_subscribe(NoSubscribers)

NextIsland ==
    \/ Tick
    \/ \E location \in IslandDisasterCells : DisasterStart(location)

SpecIsland == InitIsland /\ [][NextIsland]_vars

\* every agent stands on a road cell of the grid
OnRoad == \A i \in 1 .. Len(agents) : agents[i].location \in RoadCells(map)

\* no agent's location changes by more than one cell along an axis in a step
OneStep ==
    \A i \in 1 .. Len(agents) :
        Chebyshev(agents'[i].location, agents[i].location) <= 1

\* C31: in every reachable state every agent's location is a road cell, and
\* in one tick an agent's location changes by at most one cell along each
\* axis (it stays or moves to one of its 8 neighbours)
C31_OnRoadOneStep == []OnRoad /\ [][OneStep]_vars

\* on a grid whose perception windows never wrap (CityMap) the agents stay on
\* road cells and move one cell at a time
ObservedOnRoad == map = CityMap => OnRoad

\* on every grid a step changes each coordinate of a location by at most one
ObservedOneStep == [][OneStep]_vars


-----------------------------------------------------------------------------
(* Frame of injure_near_disaster (Spec, SpecIsland)                        *)

\* the step is the start of the disaster, which runs injure_near_disaster
DisasterStruck == disaster_loc = <<>> /\ disaster_loc' # <<>>

\* c lies in the 7 x 7 window around location
InDisasterWindow(c, location) == Chebyshev(c, location) <= 3

\* nothing but health_state changes: the agent list, every other field of
\* every agent, every cell's occupant and the map stay as they were
OnlyHealthChanges ==
    /\ Len(agents') = Len(agents)
    /\ \A i \in 1 .. Len(agents) :
          [agents'[i] EXCEPT !.health_state = agents[i].health_state] = agents[i]
    /\ occupant' = occupant
    /\ map' = map

Struck(i) == agents'[i].health_state # agents[i].health_state

\* C32: injure_near_disaster changes only the health_state of civilians
\* located inside the 7x7 window around the disaster coordinate; the health
\* of every civilian outside the window, every agent's location, pattern,
\* target and path, every cell's occupant and is_road flag, and the agent
\* list are left unchanged
C32_OnlyHealthInWindow ==
    [][DisasterStruck =>
          /\ OnlyHealthChanges
          /\ \A i \in 1 .. Len(agents) :
                Struck(i) => InDisasterWindow(agents[i].location, disaster_loc')]_vars

\* on every grid injure_near_disaster changes nothing but health_state
ObservedOnlyHealthChanges == [][DisasterStruck => OnlyHealthChanges]_vars

\* a civilian whose health changes is the occupant of a cell of the window
ObservedStruckOccupiesWindow ==
    [][DisasterStruck =>
          \A i \in 1 .. Len(agents) :
             Struck(i) => \E c \in Cells(map) :
                             /\ occupant[c] = i
                             /\ InDisasterWindow(c, disaster_loc')]_vars

\* on a grid whose windows never wrap (CityMap) a civilian whose health
\* changes stands inside the window
ObservedStruckInWindow ==
    [][DisasterStruck /\ map = CityMap =>
          \A i \in 1 .. Len(agents) :
             Struck(i) => InDisasterWindow(agents[i].location, disaster_loc')]_vars

=============================================================================
